---- MODULE Spec2Model ----
(***************************************************************************)
(* A model of package scscrypter (src/scscrypter.go): the Encrypter codec, *)
(* its constructors, Encode/Decode and the encrypt/decrypt envelope        *)
(* methods.  Byte buffers are sequences of integers 0..255.  The AEAD      *)
(* primitives, encoding/gob and the random sources are the collaborators   *)
(* the code calls; they are modelled at byte level by what they do: a      *)
(* keyed stream cipher with a polynomial authentication tag, a tagged      *)
(* field encoding, and a reader that yields bytes or fails.                *)
(***************************************************************************)
EXTENDS Integers, Sequences, FiniteSets, TLC

(***************************************************************************)
(* Bounds of the model.                                                    *)
(***************************************************************************)
\* instants are 0..MaxInstant; 0 is the zero instant time.Time{}
MaxInstant == 1
\* the random sources can yield MaxSeed + 1 different byte streams
MaxSeed == 1

Callers == {1, 2}

(***************************************************************************)
(* Byte helpers.                                                           *)
(***************************************************************************)
Repeat(b, n) == [i \in 1..n |-> b]

Range(s) == {s[i] : i \in DOMAIN s}

Take(s, n) == SubSeq(s, 1, n)

Drop(s, n) == SubSeq(s, n + 1, Len(s))

(***************************************************************************)
(* Errors are chains of messages: fmt.Errorf("...: %w", err) puts its      *)
(* message in front of the chain it wraps; errors.Is looks along the       *)
(* chain.                                                                  *)
(***************************************************************************)
NoErr == <<>>

ErrNoCipher == "cipher is nil"

ErrCiphertextTooShort == "ciphertext too short"

\* the one error the AEAD Open primitives return
ErrOpen == "message authentication failed"

\* the error of the failing reader
ErrRead == "failed to read"

ErrGobUnregistered == "gob: type not registered for interface"

ErrGobDecode == "gob: decode failed"

MsgEncode == "failed to encode session data"

MsgDecrypt == "failed to decrypt session data"

MsgDecode == "failed to decode session data"

MsgRandom == "failed to generate random iv"

MsgAES == "failed to create AES cipher"

MsgChaCha == "failed to create ChaCha20-Poly1305 AEAD"

ErrKeySize == "invalid key size"

Wrap(msg, err) == <<msg>> \o err

Is(err, target) == \E i \in DOMAIN err : err[i] = target

(***************************************************************************)
(* Optional byte results: Go's nil slice against a slice with bytes.       *)
(***************************************************************************)
NilBytes == [nil |-> TRUE, b |-> <<>>]

Bytes(s) == [nil |-> FALSE, b |-> s]

(***************************************************************************)
(* The cipher handle: cipher.AEAD, an interface value that may be nil.     *)
(***************************************************************************)
AESGCM == "AES-GCM"

ChaCha == "ChaCha20-Poly1305"

XChaCha == "XChaCha20-Poly1305"

Families == {AESGCM, ChaCha, XChaCha}

NoCipher == [present |-> FALSE, family |-> "none", key |-> <<>>]

AEAD(family, key) == [present |-> TRUE, family |-> family, key |-> key]

GCMStandardNonceSize == 12

ChaChaNonceSize == 12

XChaChaNonceSize == 24

TagSize == 16

ChaChaKeySize == 32

AESKeySizes == {16, 24, 32}

\* cipher.AEAD.NonceSize: the AEAD of NewGCMWithRandomNonce draws its nonce
\* itself and asks its caller for none
NonceSize(c) ==
    CASE c.family = AESGCM -> 0
      [] c.family = ChaCha -> ChaChaNonceSize
      [] c.family = XChaCha -> XChaChaNonceSize

FamilyIndex(f) ==
    CASE f = AESGCM -> 1
      [] f = ChaCha -> 2
      [] f = XChaCha -> 3

\* the secret the key schedule derives from the key: never 0
KeyR(c) == 2 + c.key[1] * Len(c.key) + 33 * Len(c.key) + 1500 * FamilyIndex(c.family)

RECURSIVE Digest(_, _, _)
\* a polynomial in r over the prime field of 8191 elements
Digest(r, msg, h) ==
    IF msg = <<>> THEN h
    ELSE Digest(r, Tail(msg), ((h + Head(msg) + 1) * r) % 8191)

KeyStream(c, nonce, i) == (Digest(KeyR(c), nonce, 1) + i * KeyR(c)) % 256

\* the authentication tag over the nonce, the ciphertext and its length
Tag(c, nonce, ct) ==
    LET h == Digest(KeyR(c), nonce \o ct \o <<Len(ct)>>, 1)
    IN  [i \in 1..TagSize |->
            CASE i = 1 -> h % 256
              [] i = 2 -> h \div 256
              [] OTHER -> (h + i * KeyR(c)) % 256]

\* ciphertext and tag for one nonce, no additional data
SealCore(c, nonce, plaintext) ==
    LET ct == [i \in 1..Len(plaintext) |->
                  (plaintext[i] + KeyStream(c, nonce, i)) % 256]
    IN  ct \o Tag(c, nonce, ct)

OpenCore(c, nonce, sealed) ==
    IF Len(sealed) < TagSize THEN [ok |-> FALSE, pt |-> <<>>]
    ELSE LET ct == Take(sealed, Len(sealed) - TagSize)
             tag == Drop(sealed, Len(sealed) - TagSize)
         IN  IF tag # Tag(c, nonce, ct) THEN [ok |-> FALSE, pt |-> <<>>]
             ELSE [ok |-> TRUE,
                   pt |-> [i \in 1..Len(ct) |->
                              (ct[i] - KeyStream(c, nonce, i)) % 256]]

\* cipher.AEAD.Seal and Open panic on a nonce of the wrong length
NoncePanics(c, nonce) == Len(nonce) # NonceSize(c)

\* cipher.AEAD.Seal(dst, nonce, plaintext, nil): appends to dst.  The
\* random-nonce GCM draws its own 12-byte nonce (inner) and puts it in
\* front of the ciphertext.
Seal(c, dst, nonce, plaintext, inner) ==
    IF c.family = AESGCM
    THEN dst \o inner \o SealCore(c, inner, plaintext)
    ELSE dst \o SealCore(c, nonce, plaintext)

\* cipher.AEAD.Open(nil, nonce, ciphertext, nil)
Open(c, nonce, ciphertext) ==
    IF c.family = AESGCM
    THEN IF Len(ciphertext) < GCMStandardNonceSize + TagSize
         THEN [ok |-> FALSE, pt |-> <<>>]
         ELSE OpenCore(c, Take(ciphertext, GCMStandardNonceSize),
                       Drop(ciphertext, GCMStandardNonceSize))
    ELSE OpenCore(c, nonce, ciphertext)

(***************************************************************************)
(* The random sources.  rand.Reader is a package variable: the reader of   *)
(* the operating system, or a reader that fails.                           *)
(***************************************************************************)
Seeds == 0..MaxSeed

RandomBytes(seed, n) == [i \in 1..n |-> (seed * 37 + i * 11) % 256]

\* io.ReadFull(rand.Reader, buf): no Read at all for an empty buf
ReadFull(reader, n, seed) ==
    IF n = 0 THEN [b |-> <<>>, err |-> NoErr, reads |-> 0]
    ELSE IF reader = "fail" THEN [b |-> Repeat(0, n), err |-> <<ErrRead>>, reads |-> 1]
    ELSE [b |-> RandomBytes(seed, n), err |-> NoErr, reads |-> 1]

(***************************************************************************)
(* encoding/gob on the auxiliary struct {Deadline, Values}.  A mapping is  *)
(* nil or a function from keys to typed values; a field with the zero      *)
(* value is not sent, fields are numbered by their distance to the field   *)
(* sent before, a map goes out in the order the runtime iterates it.       *)
(***************************************************************************)
TimeZero == 0

Instants == 0..MaxInstant

NilMap == [nil |-> TRUE, m |-> [k \in {} |-> 0]]

Map(m) == [nil |-> FALSE, m |-> m]

Val(t, v) == [t |-> t, v |-> v]

\* the types gob registers by itself
GobRegistered == {"string", "int", "bool", "[]uint8"}

Keys == {"a", "n", "unregistered"}

StrCode(s) ==
    CASE s = "a" -> 97
      [] s = "n" -> 110
      [] s = "unregistered" -> 117

TypeCode(t) ==
    CASE t = "string" -> 1
      [] t = "int" -> 2
      [] t = "bool" -> 3
      [] t = "[]uint8" -> 4

GobHeader == 255

MapEmpty == Map([k \in {} |-> 0])

MapAB == Map([k \in {"a"} |-> Val("string", 98)])

MapABN == Map([k \in {"a", "n"} |-> IF k = "a" THEN Val("string", 98) ELSE Val("int", 42)])

MapUnregistered == Map([k \in {"unregistered"} |-> Val("map[string]string", 1)])

SupportedMappings == {NilMap, MapEmpty, MapAB, MapABN}

Mappings == SupportedMappings \cup {MapUnregistered}

Supported(V) == \A k \in DOMAIN V.m : V.m[k].t \in GobRegistered

\* the orders in which the runtime may iterate the map
Orders(V) ==
    {o \in [1..Cardinality(DOMAIN V.m) -> DOMAIN V.m] :
        \A i, j \in DOMAIN o : i # j => o[i] # o[j]}

RECURSIVE GobEntries(_, _)
GobEntries(V, order) ==
    IF order = <<>> THEN <<>>
    ELSE LET k == Head(order)
         IN  <<StrCode(k), TypeCode(V.m[k].t), V.m[k].v>> \o GobEntries(V, Tail(order))

\* gob.NewEncoder(buffer).Encode(aux)
GobEncode(T, V, order) ==
    IF ~Supported(V) THEN [b |-> <<>>, err |-> <<ErrGobUnregistered>>]
    ELSE LET deadline == IF T = TimeZero THEN <<>> ELSE <<1, T>>
             delta == IF T = TimeZero THEN 2 ELSE 1
             values == IF V.nil THEN <<>>
                       ELSE <<delta, Len(order)>> \o GobEntries(V, order)
         IN  [b |-> <<GobHeader>> \o deadline \o values \o <<0>>, err |-> NoErr]

KeyOfCode(x) == CHOOSE s \in Keys : StrCode(s) = x

TypeOfCode(x) == CHOOSE t \in GobRegistered : TypeCode(t) = x

GobFail == [ok |-> FALSE, T |-> TimeZero, V |-> NilMap]

\* the entries of a map field: n triples, which must end the field list
GobDecodeMap(T, rest) ==
    IF Len(rest) < 1 \/ Len(rest) # 1 + 3 * rest[1] THEN GobFail
    ELSE LET n == rest[1]
             key(i) == rest[3 * i - 1]
             typ(i) == rest[3 * i]
             val(i) == rest[3 * i + 1]
         IN  IF \/ \E i \in 1..n : key(i) \notin {StrCode(s) : s \in Keys}
                \/ \E i \in 1..n : typ(i) \notin {TypeCode(t) : t \in GobRegistered}
                \/ \E i, j \in 1..n : i # j /\ key(i) = key(j)
             THEN GobFail
             ELSE [ok |-> TRUE, T |-> T,
                   V |-> Map([k \in {KeyOfCode(key(i)) : i \in 1..n} |->
                               LET i == CHOOSE j \in 1..n : KeyOfCode(key(j)) = k
                               IN  Val(TypeOfCode(typ(i)), val(i))])]

\* the field list after the deadline: nothing, or the map at `delta`
GobDecodeValues(T, rest, delta) ==
    IF rest = <<>> THEN [ok |-> TRUE, T |-> T, V |-> NilMap]
    ELSE IF rest[1] # delta THEN GobFail
    ELSE GobDecodeMap(T, Tail(rest))

\* gob.NewDecoder(reader).Decode(&aux)
GobDecode(data) ==
    IF Len(data) < 2 \/ data[1] # GobHeader \/ data[Len(data)] # 0 THEN GobFail
    ELSE LET body == SubSeq(data, 2, Len(data) - 1)
         IN  IF body # <<>> /\ body[1] = 1
             THEN IF Len(body) < 2 \/ body[2] = TimeZero THEN GobFail
                  ELSE GobDecodeValues(body[2], Drop(body, 2), 1)
             ELSE GobDecodeValues(TimeZero, body, 2)

(***************************************************************************)
(* The package: type Encrypter and its constructors.                       *)
(***************************************************************************)
KeyLens == {1, 16, 24, 32}

\* one key of each length
CipherKeys == {Repeat(1, n) : n \in KeyLens}

\* type Encrypter struct { cipher cipher.AEAD }; its zero value has no cipher
Encrypter(aead) == [cipher |-> aead]

New(aead) == Encrypter(aead)

\* aes.NewCipher(key), then cipher.NewGCMWithRandomNonce(block), which
\* accepts every block of aes.NewCipher
NewAESGCM(key) ==
    IF Len(key) \notin AESKeySizes
    THEN [e |-> Encrypter(NoCipher), err |-> Wrap(MsgAES, <<ErrKeySize>>)]
    ELSE [e |-> New(AEAD(AESGCM, key)), err |-> NoErr]

\* the constructor returning a codec with a cipher whatever the key
NewChaCha20Poly1305AnyKey(key) ==
    [e |-> New(AEAD(ChaCha, key)),
     err |-> IF Len(key) # ChaChaKeySize THEN Wrap(MsgChaCha, <<ErrKeySize>>) ELSE NoErr]

NewChaCha20Poly1305(key) ==
    IF Len(key) # ChaChaKeySize
    THEN [e |-> Encrypter(NoCipher), err |-> Wrap(MsgChaCha, <<ErrKeySize>>)]
    ELSE [e |-> New(AEAD(ChaCha, key)), err |-> NoErr]

NewXChaCha20Poly1305(key) ==
    IF Len(key) # ChaChaKeySize
    THEN [e |-> Encrypter(NoCipher), err |-> Wrap(MsgChaCha, <<ErrKeySize>>)]
    ELSE [e |-> New(AEAD(XChaCha, key)), err |-> NoErr]

Constructors == {"New", "NewAESGCM", "NewChaCha20Poly1305", "NewXChaCha20Poly1305"}

Construct(ctor, key) ==
    CASE ctor = "New" -> [e |-> New(NoCipher), err |-> NoErr]
      [] ctor = "NewAESGCM" -> NewAESGCM(key)
      [] ctor = "NewChaCha20Poly1305" -> NewChaCha20Poly1305(key)
      [] ctor = "NewXChaCha20Poly1305" -> NewXChaCha20Poly1305(key)

(***************************************************************************)
(* encrypt and decrypt, the envelope methods.  Beside the two results of   *)
(* the Go method each outcome records what the call did: whether it        *)
(* panicked, how often it read rand.Reader, whether it called Seal or      *)
(* Open, and the nonce it drew.                                            *)
(***************************************************************************)
Outcome(ret, err, panic, reads, sealed, opened, nonce) ==
    [ret |-> ret, err |-> err, panic |-> panic, reads |-> reads,
     sealed |-> sealed, opened |-> opened, nonce |-> nonce]

\* encrypt with Seal given no destination: the envelope lacks the nonce
encryptNoPrefix(e, data, reader, seed, inner) ==
    IF e.cipher = NoCipher
    THEN Outcome(NilBytes, <<ErrNoCipher>>, FALSE, 0, FALSE, FALSE, <<>>)
    ELSE LET rd == ReadFull(reader, NonceSize(e.cipher), seed)
             nonce == rd.b
         IN  IF rd.err # NoErr
             THEN Outcome(NilBytes, Wrap(MsgRandom, rd.err), FALSE, rd.reads,
                          FALSE, FALSE, <<>>)
             ELSE Outcome(Bytes(Seal(e.cipher, <<>>, nonce, data, inner)), NoErr,
                          NoncePanics(e.cipher, nonce), rd.reads, TRUE, FALSE, nonce)

\* encrypt going on to Seal whatever io.ReadFull returned
encryptIgnoringReadError(e, data, reader, seed, inner) ==
    IF e.cipher = NoCipher
    THEN Outcome(NilBytes, <<ErrNoCipher>>, FALSE, 0, FALSE, FALSE, <<>>)
    ELSE LET rd == ReadFull(reader, NonceSize(e.cipher), seed)
             nonce == rd.b
         IN  Outcome(Bytes(Seal(e.cipher, nonce, nonce, data, inner)), NoErr,
                     NoncePanics(e.cipher, nonce), rd.reads, TRUE, FALSE, nonce)

\* encrypt with the nonce behind the sealed data
encryptNonceLast(e, data, reader, seed, inner) ==
    IF e.cipher = NoCipher
    THEN Outcome(NilBytes, <<ErrNoCipher>>, FALSE, 0, FALSE, FALSE, <<>>)
    ELSE LET rd == ReadFull(reader, NonceSize(e.cipher), seed)
             nonce == rd.b
         IN  IF rd.err # NoErr
             THEN Outcome(NilBytes, Wrap(MsgRandom, rd.err), FALSE, rd.reads,
                          FALSE, FALSE, <<>>)
             ELSE Outcome(Bytes(Seal(e.cipher, <<>>, nonce, data, inner) \o nonce), NoErr,
                          NoncePanics(e.cipher, nonce), rd.reads, TRUE, FALSE, nonce)

\* encrypt with a nonce made from the plaintext, rand.Reader not read
encryptNonceFromData(e, data, reader, seed, inner) ==
    IF e.cipher = NoCipher
    THEN Outcome(NilBytes, <<ErrNoCipher>>, FALSE, 0, FALSE, FALSE, <<>>)
    ELSE LET nonce == Repeat(Len(data), NonceSize(e.cipher))
         IN  Outcome(Bytes(Seal(e.cipher, nonce, nonce, data, inner)), NoErr,
                     NoncePanics(e.cipher, nonce), 0, TRUE, FALSE, nonce)

\* encrypt returning the nonce buffer along with the error of io.ReadFull
encryptPartialOnReadError(e, data, reader, seed, inner) ==
    IF e.cipher = NoCipher
    THEN Outcome(NilBytes, <<ErrNoCipher>>, FALSE, 0, FALSE, FALSE, <<>>)
    ELSE LET rd == ReadFull(reader, NonceSize(e.cipher), seed)
             nonce == rd.b
         IN  IF rd.err # NoErr
             THEN Outcome(Bytes(nonce), Wrap(MsgRandom, rd.err), FALSE, rd.reads,
                          FALSE, FALSE, <<>>)
             ELSE Outcome(Bytes(Seal(e.cipher, nonce, nonce, data, inner)), NoErr,
                          NoncePanics(e.cipher, nonce), rd.reads, TRUE, FALSE, nonce)

\* func (e Encrypter) encrypt(data []byte) ([]byte, error)
encrypt(e, data, reader, seed, inner) ==
    IF e.cipher = NoCipher
    THEN Outcome(NilBytes, <<ErrNoCipher>>, FALSE, 0, FALSE, FALSE, <<>>)
    ELSE LET rd == ReadFull(reader, NonceSize(e.cipher), seed)
             nonce == rd.b
         IN  IF rd.err # NoErr
             THEN Outcome(NilBytes, Wrap(MsgRandom, rd.err), FALSE, rd.reads,
                          FALSE, FALSE, <<>>)
             ELSE Outcome(Bytes(Seal(e.cipher, nonce, nonce, data, inner)), NoErr,
                          NoncePanics(e.cipher, nonce), rd.reads, TRUE, FALSE, nonce)

\* decrypt that returns Open's bytes whatever Open's error
decryptIgnoringOpenError(e, data) ==
    IF e.cipher = NoCipher
    THEN Outcome(NilBytes, <<ErrNoCipher>>, FALSE, 0, FALSE, FALSE, <<>>)
    ELSE IF Len(data) < NonceSize(e.cipher)
    THEN Outcome(NilBytes, <<ErrCiphertextTooShort>>, FALSE, 0, FALSE, FALSE, <<>>)
    ELSE LET nonce == Take(data, NonceSize(e.cipher))
             ciphertext == Drop(data, NonceSize(e.cipher))
             op == Open(e.cipher, nonce, ciphertext)
         IN  Outcome(Bytes(op.pt), NoErr, NoncePanics(e.cipher, nonce), 0,
                     FALSE, TRUE, nonce)

\* decrypt without the nil test: NonceSize is called on a nil interface
decryptNoNilCheck(e, data) ==
    IF e.cipher = NoCipher
    THEN Outcome(NilBytes, NoErr, TRUE, 0, FALSE, FALSE, <<>>)
    ELSE IF Len(data) < NonceSize(e.cipher)
    THEN Outcome(NilBytes, <<ErrCiphertextTooShort>>, FALSE, 0, FALSE, FALSE, <<>>)
    ELSE LET nonce == Take(data, NonceSize(e.cipher))
             ciphertext == Drop(data, NonceSize(e.cipher))
             op == Open(e.cipher, nonce, ciphertext)
         IN  IF op.ok
             THEN Outcome(Bytes(op.pt), NoErr, NoncePanics(e.cipher, nonce), 0,
                          FALSE, TRUE, nonce)
             ELSE Outcome(NilBytes, <<ErrOpen>>, NoncePanics(e.cipher, nonce), 0,
                          FALSE, TRUE, nonce)

\* decrypt without the length test: the slice expression is out of range
decryptNoLenCheck(e, data) ==
    IF e.cipher = NoCipher
    THEN Outcome(NilBytes, <<ErrNoCipher>>, FALSE, 0, FALSE, FALSE, <<>>)
    ELSE IF Len(data) < NonceSize(e.cipher)
    THEN Outcome(NilBytes, NoErr, TRUE, 0, FALSE, FALSE, <<>>)
    ELSE LET nonce == Take(data, NonceSize(e.cipher))
             ciphertext == Drop(data, NonceSize(e.cipher))
             op == Open(e.cipher, nonce, ciphertext)
         IN  IF op.ok
             THEN Outcome(Bytes(op.pt), NoErr, NoncePanics(e.cipher, nonce), 0,
                          FALSE, TRUE, nonce)
             ELSE Outcome(NilBytes, <<ErrOpen>>, NoncePanics(e.cipher, nonce), 0,
                          FALSE, TRUE, nonce)

\* decrypt answering a failure of Open with the error of its length check
decryptShortOnOpenError(e, data) ==
    IF e.cipher = NoCipher
    THEN Outcome(NilBytes, <<ErrNoCipher>>, FALSE, 0, FALSE, FALSE, <<>>)
    ELSE IF Len(data) < NonceSize(e.cipher)
    THEN Outcome(NilBytes, <<ErrCiphertextTooShort>>, FALSE, 0, FALSE, FALSE, <<>>)
    ELSE LET nonce == Take(data, NonceSize(e.cipher))
             ciphertext == Drop(data, NonceSize(e.cipher))
             op == Open(e.cipher, nonce, ciphertext)
         IN  IF op.ok
             THEN Outcome(Bytes(op.pt), NoErr, NoncePanics(e.cipher, nonce), 0,
                          FALSE, TRUE, nonce)
             ELSE Outcome(NilBytes, <<ErrCiphertextTooShort>>,
                          NoncePanics(e.cipher, nonce), 0, FALSE, TRUE, nonce)

\* func (e Encrypter) decrypt(data []byte) ([]byte, error)
decrypt(e, data) ==
    IF e.cipher = NoCipher
    THEN Outcome(NilBytes, <<ErrNoCipher>>, FALSE, 0, FALSE, FALSE, <<>>)
    ELSE IF Len(data) < NonceSize(e.cipher)
    THEN Outcome(NilBytes, <<ErrCiphertextTooShort>>, FALSE, 0, FALSE, FALSE, <<>>)
    ELSE LET nonce == Take(data, NonceSize(e.cipher))
             ciphertext == Drop(data, NonceSize(e.cipher))
             op == Open(e.cipher, nonce, ciphertext)
         IN  IF op.ok
             THEN Outcome(Bytes(op.pt), NoErr, NoncePanics(e.cipher, nonce), 0,
                          FALSE, TRUE, nonce)
             ELSE Outcome(NilBytes, <<ErrOpen>>, NoncePanics(e.cipher, nonce), 0,
                          FALSE, TRUE, nonce)

(***************************************************************************)
(* The serializer's side of Encode and Decode.                             *)
(***************************************************************************)
\* Encode going on to encrypt whatever the gob encoder returned
SerializeIgnoringError(T, V, order) ==
    [ok |-> TRUE, b |-> GobEncode(T, V, order).b, err |-> NoErr]

\* Encode up to the gob encoder's result: the bytes of the buffer, or the
\* wrapped error with which Encode returns
Serialize(T, V, order) ==
    LET g == GobEncode(T, V, order)
    IN  IF g.err # NoErr
        THEN [ok |-> FALSE, b |-> <<>>, err |-> Wrap(MsgEncode, g.err)]
        ELSE [ok |-> TRUE, b |-> g.b, err |-> NoErr]

\* Decode returning whatever the gob decoder left in aux, and no error
DeserializeIgnoringError(data) ==
    [T |-> GobDecode(data).T, V |-> GobDecode(data).V, err |-> NoErr]

\* Decode giving a gob decoder's error the context of decrypt's errors
DeserializeDecryptContext(data) ==
    LET g == GobDecode(data)
    IN  IF g.ok
        THEN [T |-> g.T, V |-> g.V, err |-> NoErr]
        ELSE [T |-> TimeZero, V |-> NilMap, err |-> Wrap(MsgDecrypt, <<ErrGobDecode>>)]

\* Decode after decrypt: the record of the plaintext, or the zero instant, the
\* nil mapping and the wrapped error
Deserialize(data) ==
    LET g == GobDecode(data)
    IN  IF g.ok
        THEN [T |-> g.T, V |-> g.V, err |-> NoErr]
        ELSE [T |-> TimeZero, V |-> NilMap, err |-> Wrap(MsgDecode, <<ErrGobDecode>>)]

(***************************************************************************)
(* Encode and Decode as one call each, running alone.                      *)
(***************************************************************************)
\* func (e Encrypter) Encode(deadline, values) ([]byte, error)
Encode(enc, T, V, order, reader, seed, inner) ==
    LET g == Serialize(T, V, order)
    IN  IF ~g.ok THEN [ret |-> NilBytes, err |-> g.err]
        ELSE LET r == encrypt(enc, g.b, reader, seed, inner)
             IN  [ret |-> r.ret, err |-> r.err]

\* func (e Encrypter) Decode(ciphertext) (time.Time, map[string]interface{}, error)
Decode(enc, ciphertext) ==
    LET r == decrypt(enc, ciphertext)
    IN  IF r.err # NoErr
        THEN [T |-> TimeZero, V |-> NilMap, err |-> Wrap(MsgDecrypt, r.err)]
        ELSE Deserialize(r.ret.b)

(***************************************************************************)
(* The state.                                                              *)
(***************************************************************************)
VARIABLES
    ctor,        \* the constructor call that made the codec, "none" before it
    e,           \* the codec every caller uses
    ctorErr,     \* the error the constructor returned
    randReader,  \* the package variable crypto/rand.Reader: "ok" or "fail"
    store,       \* the blob at rest that Decode is given, and where it came from
    call,        \* each caller's call: its position, arguments and results
    buffer       \* the buffers local to the calls

vars == <<ctor, e, ctorErr, randReader, store, call, buffer>>

NoCtor == [name |-> "none", key |-> <<>>]

\* a blob: its bytes, how it came about (raw, sealed, flipped, truncated), and
\* for a sealed or tampered one the call, record and plaintext of its seal, the
\* nonce encrypt drew and the nonce the AEAD drew
Blob(env, kind, op, T, V, pt, nonce, inner) ==
    [env |-> env, kind |-> kind, op |-> op, T |-> T, V |-> V, pt |-> pt,
     nonce |-> nonce, inner |-> inner]

RawBlob(b) == Blob(b, "raw", "none", TimeZero, NilMap, <<>>, <<>>, <<>>)

\* buffers no seal made: nil, and some around the nonce and tag sizes
RawBuffers ==
    {<<>>, <<1>>, Repeat(7, 11), Repeat(7, 12), Repeat(7, 23), Repeat(7, 24),
     Repeat(7, 27), Repeat(7, 28), Repeat(7, 41)}

\* plaintexts given to encrypt directly: "foo", and bytes that look like gob
RawPlain == {<<102, 111, 111>>, <<GobHeader, 9, 0>>}

Idle ==
    [pc |-> "idle", op |-> "none", T |-> TimeZero, V |-> NilMap, in |-> RawBlob(<<>>),
     data |-> <<>>, inner |-> <<>>, ret |-> NilBytes, retT |-> TimeZero,
     retV |-> NilMap, err |-> NoErr, panic |-> FALSE, reads |-> 0,
     sealed |-> FALSE, opened |-> FALSE, nonce |-> <<>>]

\* one buffer of the package for every call
SharedBuffer(c) == 1

\* each call has buffers of its own
LocalBuffer(c) == c

Init ==
    /\ ctor = NoCtor
    /\ e = Encrypter(NoCipher)
    /\ ctorErr = NoErr
    /\ randReader = "ok"
    /\ store = RawBlob(<<>>)
    /\ call = [c \in Callers |-> Idle]
    /\ buffer = [c \in Callers |-> <<>>]

(***************************************************************************)
(* Construction: one of the four constructors, once.                       *)
(***************************************************************************)
ConstructCodec ==
    /\ ctor.name = "none"
    /\ \E name \in Constructors, key \in CipherKeys :
          /\ name = "New" => key = Repeat(1, 1)
          /\ ctor' = [name |-> name, key |-> key]
          /\ e' = Construct(name, key).e
          /\ ctorErr' = Construct(name, key).err
    /\ UNCHANGED <<randReader, store, call, buffer>>

(***************************************************************************)
(* Encode: serialize, then seal.                                           *)
(***************************************************************************)
Finish(c, r) ==
    [call[c] EXCEPT !.pc = "done", !.ret = r.ret, !.err = r.err, !.panic = r.panic,
                    !.reads = r.reads, !.sealed = r.sealed, !.opened = r.opened,
                    !.nonce = r.nonce]

\* Encode up to the gob encoder's result (lines 148-159)
EncodeSerialize(c, instants, mappings) ==
    /\ ctor.name # "none"
    /\ call[c].pc = "idle"
    /\ \E T \in instants, V \in mappings :
        \E order \in Orders(V) :
          LET g == Serialize(T, V, order)
              started == [Idle EXCEPT !.op = "Encode", !.T = T, !.V = V]
          IN  IF ~g.ok
              THEN /\ call' = [call EXCEPT ![c] =
                          [started EXCEPT !.pc = "done", !.err = g.err]]
                   /\ UNCHANGED buffer
              ELSE /\ call' = [call EXCEPT ![c] = [started EXCEPT !.pc = "serialized"]]
                   /\ buffer' = [buffer EXCEPT ![LocalBuffer(c)] = g.b]
    /\ UNCHANGED <<ctor, e, ctorErr, randReader, store>>

\* Encode's last line: return e.encrypt(buffer.Bytes())
EncodeSeal(c) ==
    /\ call[c].pc = "serialized"
    /\ \E seed \in Seeds, iseed \in Seeds :
          LET data == buffer[LocalBuffer(c)]
              inner == RandomBytes(iseed, GCMStandardNonceSize)
              r == encrypt(e, data, randReader, seed, inner)
          IN  /\ e.cipher.family # AESGCM => iseed = 0
              /\ e.cipher.family = AESGCM => seed = 0
              /\ call' = [call EXCEPT ![c] =
                            [Finish(c, r) EXCEPT !.data = data, !.inner = inner]]
    /\ buffer' = [buffer EXCEPT ![LocalBuffer(c)] = <<>>]
    /\ UNCHANGED <<ctor, e, ctorErr, randReader, store>>

\* encrypt called by itself, on any plaintext
EncryptCall(c) ==
    /\ ctor.name # "none"
    /\ call[c].pc = "idle"
    /\ \E data \in RawPlain, seed \in Seeds, iseed \in Seeds :
          LET inner == RandomBytes(iseed, GCMStandardNonceSize)
              r == encrypt(e, data, randReader, seed, inner)
          IN  /\ e.cipher.family # AESGCM => iseed = 0
              /\ e.cipher.family = AESGCM => seed = 0
              /\ call' = [call EXCEPT ![c] =
                            [Idle EXCEPT !.pc = "done", !.op = "encrypt", !.data = data,
                                         !.inner = inner, !.ret = r.ret, !.err = r.err,
                                         !.panic = r.panic, !.reads = r.reads,
                                         !.sealed = r.sealed, !.nonce = r.nonce]]
    /\ UNCHANGED <<ctor, e, ctorErr, randReader, store, buffer>>

(***************************************************************************)
(* Decode: open, then deserialize.  Decode is given the blob of the store, *)
(* that blob with one byte changed or with bytes cut off its end, or a     *)
(* buffer no seal made.                                                    *)
(***************************************************************************)
Deltas == {1, 128, 255}

Flipped(blob) ==
    {[blob EXCEPT !.kind = "flipped", !.env = [blob.env EXCEPT ![i] = (@ + d) % 256]] :
        i \in DOMAIN blob.env, d \in Deltas}

Truncated(blob) ==
    {[blob EXCEPT !.kind = "truncated", !.env = Take(blob.env, Len(blob.env) - n)] :
        n \in 1..Len(blob.env)}

Inputs(blob) ==
    {blob} \cup {RawBlob(b) : b \in RawBuffers}
        \cup (IF blob.kind = "sealed" THEN Flipped(blob) \cup Truncated(blob) ELSE {})

\* keys the codec of this program was not made with
OtherKeys == {Repeat(2, n) : n \in KeyLens}

\* the codecs the constructors make that are not this one: another key,
\* another cipher family, or both
OtherCodecs(enc) ==
    {o \in {Construct(name, key).e : name \in Constructors, key \in CipherKeys \cup OtherKeys} :
        o.cipher # NoCipher /\ o # enc}

\* what Encode of another codec returned for one record
ForeignBlob(enc, o, T, V, order, seed, iseed) ==
    LET inner == RandomBytes(iseed, GCMStandardNonceSize)
        r == encrypt(o, Serialize(T, V, order).b, "ok", seed, inner)
    IN  Blob(Encode(o, T, V, order, "ok", seed, inner).ret.b,
             IF o.cipher.family = enc.cipher.family THEN "otherkey" ELSE "otherfamily",
             "Encode", T, V, Serialize(T, V, order).b, r.nonce, inner)

Foreign(enc) ==
    UNION {{ForeignBlob(enc, o, MaxInstant, MapABN, order, seed, iseed) :
                order \in Orders(MapABN),
                seed \in IF o.cipher.family = AESGCM THEN {0} ELSE Seeds,
                iseed \in IF o.cipher.family = AESGCM THEN Seeds ELSE {0}} :
           o \in OtherCodecs(enc)}

\* Decode up to decrypt's result (lines 177-185)
DecodeOpen(c, inputs) ==
    /\ ctor.name # "none"
    /\ call[c].pc = "idle"
    /\ \E in \in inputs :
       LET r == decrypt(e, in.env)
           started == [Idle EXCEPT !.op = "Decode", !.in = in]
           done == [started EXCEPT !.panic = r.panic, !.opened = r.opened,
                                   !.nonce = r.nonce]
       IN  IF r.err # NoErr
           THEN /\ call' = [call EXCEPT ![c] =
                       [done EXCEPT !.pc = "done", !.err = Wrap(MsgDecrypt, r.err)]]
                /\ UNCHANGED buffer
           ELSE /\ call' = [call EXCEPT ![c] = [done EXCEPT !.pc = "opened"]]
                /\ buffer' = [buffer EXCEPT ![LocalBuffer(c)] = r.ret.b]
    /\ UNCHANGED <<ctor, e, ctorErr, randReader, store>>

\* the gob decoder on the plaintext (lines 186-191)
DecodeDeserialize(c) ==
    /\ call[c].pc = "opened"
    /\ LET g == Deserialize(buffer[LocalBuffer(c)])
       IN  call' = [call EXCEPT ![c] =
              [@ EXCEPT !.pc = "done", !.retT = g.T, !.retV = g.V, !.err = g.err]]
    /\ buffer' = [buffer EXCEPT ![LocalBuffer(c)] = <<>>]
    /\ UNCHANGED <<ctor, e, ctorErr, randReader, store>>

(***************************************************************************)
(* The caller takes the results; what a seal returned goes to the store.   *)
(***************************************************************************)
Return(c) ==
    /\ call[c].pc = "done"
    /\ call' = [call EXCEPT ![c] = Idle]
    /\ store' = IF call[c].op \in {"Encode", "encrypt"} /\ call[c].err = NoErr
                THEN Blob(call[c].ret.b, "sealed", call[c].op, call[c].T, call[c].V,
                          call[c].data, call[c].nonce, call[c].inner)
                ELSE store
    /\ UNCHANGED <<ctor, e, ctorErr, randReader, buffer>>

(***************************************************************************)
(* The environment: a test swaps rand.Reader between calls.                *)
(***************************************************************************)
SetRandReader ==
    /\ ctor.name # "none"
    /\ \A c \in Callers : call[c].pc = "idle"
    /\ randReader' = IF randReader = "ok" THEN "fail" ELSE "ok"
    /\ UNCHANGED <<ctor, e, ctorErr, store, call, buffer>>

\* one caller, every record, a store that is tampered with, a random source
\* that may fail
Next ==
    \/ ConstructCodec
    \/ EncodeSerialize(1, Instants, Mappings)
    \/ EncodeSeal(1)
    \/ EncryptCall(1)
    \/ DecodeOpen(1, Inputs(store) \cup Foreign(e))
    \/ DecodeDeserialize(1)
    \/ Return(1)
    \/ SetRandReader

Spec == Init /\ [][Next]_vars

\* several callers on one codec
NextConc ==
    \/ ConstructCodec
    \/ \E c \in Callers :
          \/ EncodeSerialize(c, Instants, {MapAB, MapUnregistered})
          \/ EncodeSeal(c)
          \/ DecodeOpen(c, {store})
          \/ DecodeDeserialize(c)
          \/ Return(c)
    \/ SetRandReader

SpecConc == Init /\ [][NextConc]_vars

(***************************************************************************)
(* Properties.                                                             *)
(***************************************************************************)
Done(c, op) == call[c].pc = "done" /\ call[c].op = op

Constructed == ctor.name # "none"

\* the codecs of the round trip: AES-128-GCM, AES-256-GCM, ChaCha20-Poly1305
\* and XChaCha20-Poly1305
RoundTripCodec ==
    /\ ctor.name \in {"NewAESGCM", "NewChaCha20Poly1305", "NewXChaCha20Poly1305"}
    /\ ctorErr = NoErr
    /\ ctor.name = "NewAESGCM" => Len(ctor.key) \in {16, 32}

\* C1: on a codec of each cipher family, Encode of an instant and a mapping
\* the serializer supports succeeds (it can fail only with the error of a
\* random source that failed), and Decode of the envelope Encode returned
\* succeeds and returns exactly that instant and that mapping.
C1_RoundTrip ==
    RoundTripCodec =>
        \A c \in Callers :
            /\ Done(c, "Encode") /\ Supported(call[c].V) =>
                  \/ call[c].err = NoErr /\ ~call[c].ret.nil
                  \/ randReader = "fail" /\ Is(call[c].err, ErrRead)
            /\ Done(c, "Decode") /\ call[c].in.kind = "sealed" /\ call[c].in.op = "Encode" =>
                  /\ call[c].err = NoErr
                  /\ call[c].retT = call[c].in.T
                  /\ call[c].retV = call[c].in.V

C1_Witness ==
    /\ RoundTripCodec
    /\ e.cipher.family = XChaCha
    /\ Done(1, "Decode")
    /\ call[1].in.kind = "sealed"
    /\ call[1].in.op = "Encode"
    /\ call[1].in.T = MaxInstant
    /\ call[1].in.V = MapABN
    /\ call[1].retV = MapABN
    /\ call[1].retT = MaxInstant

\* C2: Decode of an envelope of a successful seal with one byte changed, or
\* with one or more bytes cut off its end, fails with the authentication
\* error or with ErrCiphertextTooShort and returns no record; Decode never
\* succeeds with a record other than the one encoded.
C2_TamperDetected ==
    e.cipher.present =>
        \A c \in Callers :
            /\ Done(c, "Decode") /\ call[c].in.kind \in {"flipped", "truncated"} =>
                  /\ Is(call[c].err, ErrOpen) \/ Is(call[c].err, ErrCiphertextTooShort)
                  /\ call[c].retT = TimeZero
                  /\ call[c].retV = NilMap
            /\ /\ Done(c, "Decode")
               /\ call[c].in.kind \in {"sealed", "flipped", "truncated"}
               /\ call[c].in.op = "Encode"
               /\ call[c].err = NoErr
               => call[c].retT = call[c].in.T /\ call[c].retV = call[c].in.V

C2_Witness ==
    /\ e.cipher.family = ChaCha
    /\ Done(1, "Decode")
    /\ call[1].in.kind = "flipped"
    /\ call[1].in.op = "Encode"
    /\ call[1].in.V = MapAB
    /\ Is(call[1].err, ErrOpen)

AbsentCipher == Constructed /\ e.cipher = NoCipher

\* C3 as claimed: on a codec without a cipher every Encode, for any mapping,
\* and every Decode fails with an error that matches ErrNoCipher, and none
\* panics.
C3_AbsentCipherAnyMapping ==
    AbsentCipher =>
        \A c \in Callers :
            Done(c, "Encode") \/ Done(c, "Decode") =>
                Is(call[c].err, ErrNoCipher) /\ ~call[c].panic

\* C3, amended: on a codec without a cipher no call panics and every call
\* fails; every Decode, every encrypt and every Encode of a mapping the
\* serializer supports fails with an error that matches ErrNoCipher, and
\* Encode of a mapping with an unsupported value type fails with the
\* serializer's error, which does not match ErrNoCipher.
C3_AbsentCipher ==
    AbsentCipher =>
        \A c \in Callers :
            call[c].pc = "done" =>
                /\ ~call[c].panic
                /\ call[c].err # NoErr
                /\ call[c].ret.nil
                /\ IF call[c].op = "Encode" /\ ~Supported(call[c].V)
                   THEN Is(call[c].err, ErrGobUnregistered) /\ ~Is(call[c].err, ErrNoCipher)
                   ELSE Is(call[c].err, ErrNoCipher)

C3_Witness ==
    /\ AbsentCipher
    /\ ctor.name = "New"
    /\ Done(1, "Decode")
    /\ call[1].in.env = <<1>>
    /\ Is(call[1].err, ErrNoCipher)

\* the nonce sizes the claims give the cipher families
ClaimedNonceSize(family) ==
    CASE family = AESGCM -> GCMStandardNonceSize
      [] family = ChaCha -> ChaChaNonceSize
      [] family = XChaCha -> XChaChaNonceSize

\* C4 as claimed: for each cipher family, Decode of a buffer shorter than 12
\* bytes (AES-GCM, ChaCha20-Poly1305) or 24 bytes (XChaCha20-Poly1305) fails
\* with ErrCiphertextTooShort without a call of Open, and without a panic.
C4_ShortBufferEveryFamily ==
    e.cipher.present =>
        \A c \in Callers :
            Done(c, "Decode") /\ Len(call[c].in.env) < ClaimedNonceSize(e.cipher.family) =>
                /\ Is(call[c].err, ErrCiphertextTooShort)
                /\ ~call[c].opened
                /\ ~call[c].panic

\* C4, amended: no Decode panics; on a ChaCha20-Poly1305 codec a buffer
\* shorter than 12 bytes and on an XChaCha20-Poly1305 codec a buffer shorter
\* than 24 bytes fails with ErrCiphertextTooShort without a call of Open; on
\* an AES-GCM codec, whose cipher handle has nonce size 0, no buffer is too
\* short: Open is called, and a buffer shorter than 28 bytes (the nonce and the
\* tag) fails with the authentication error.
C4_ShortBuffer ==
    e.cipher.present =>
        \A c \in Callers :
            Done(c, "Decode") =>
                /\ ~call[c].panic
                /\ /\ e.cipher.family \in {ChaCha, XChaCha}
                   /\ Len(call[c].in.env) < ClaimedNonceSize(e.cipher.family)
                   => /\ Is(call[c].err, ErrCiphertextTooShort)
                      /\ ~call[c].opened
                /\ e.cipher.family = AESGCM =>
                      /\ call[c].opened
                      /\ ~Is(call[c].err, ErrCiphertextTooShort)
                      /\ Len(call[c].in.env) < GCMStandardNonceSize + TagSize =>
                            Is(call[c].err, ErrOpen)

C4_Witness ==
    /\ e.cipher.family = XChaCha
    /\ Done(1, "Decode")
    /\ Len(call[1].in.env) = XChaChaNonceSize - 1
    /\ Is(call[1].err, ErrCiphertextTooShort)
    /\ ~call[1].opened

\* C5: Encode of a mapping with a value whose type the serializer cannot
\* encode fails with the serializer's error, wrapped, and returns no bytes,
\* on every codec; it fails before the seal: rand.Reader is not read, no
\* nonce is drawn and Seal is not called.
C5_UnsupportedValueType ==
    \A c \in Callers :
        Done(c, "Encode") /\ ~Supported(call[c].V) =>
            /\ Is(call[c].err, ErrGobUnregistered)
            /\ Is(call[c].err, MsgEncode)
            /\ call[c].ret.nil
            /\ call[c].reads = 0
            /\ call[c].nonce = <<>>
            /\ ~call[c].sealed
            /\ ~call[c].panic

C5_Witness ==
    /\ e.cipher.family = AESGCM
    /\ Done(1, "Encode")
    /\ call[1].V = MapUnregistered
    /\ Is(call[1].err, ErrGobUnregistered)
    /\ call[1].ret.nil

Sealing(c) == Done(c, "Encode") \/ Done(c, "encrypt")

\* C6 as claimed: for every cipher family, when rand.Reader fails, encrypt,
\* and Encode once it has serialized, fail with the wrapped error of the
\* reader, return no envelope and do not call Seal.
C6_RandomFailureEveryFamily ==
    e.cipher.present /\ randReader = "fail" =>
        \A c \in Callers :
            Sealing(c) /\ Supported(call[c].V) =>
                /\ Is(call[c].err, ErrRead)
                /\ Is(call[c].err, MsgRandom)
                /\ call[c].ret.nil
                /\ ~call[c].sealed

\* C6, amended: on a ChaCha20-Poly1305 or XChaCha20-Poly1305 codec, when
\* rand.Reader fails, encrypt and Encode fail with the wrapped error of the
\* reader, return no envelope and do not call Seal.  On an AES-GCM codec
\* encrypt asks for a nonce of 0 bytes and never reads rand.Reader: it calls
\* Seal and succeeds whether rand.Reader fails or not.
C6_RandomFailure ==
    e.cipher.present =>
        \A c \in Callers :
            Sealing(c) /\ Supported(call[c].V) =>
                /\ e.cipher.family \in {ChaCha, XChaCha} /\ randReader = "fail" =>
                      /\ Is(call[c].err, ErrRead)
                      /\ Is(call[c].err, MsgRandom)
                      /\ call[c].ret.nil
                      /\ call[c].reads = 1
                      /\ ~call[c].sealed
                /\ e.cipher.family = AESGCM =>
                      /\ call[c].err = NoErr
                      /\ ~call[c].ret.nil
                      /\ call[c].reads = 0
                      /\ call[c].sealed

C6_Witness ==
    /\ e.cipher.family = ChaCha
    /\ randReader = "fail"
    /\ Done(1, "encrypt")
    /\ Is(call[1].err, ErrRead)
    /\ call[1].ret.nil

\* C7: NewAESGCM with a key of a length other than 16, 24 or 32 bytes, and
\* NewChaCha20Poly1305 or NewXChaCha20Poly1305 with a key of a length other
\* than 32 bytes, return an error and a codec without a cipher; a
\* constructor that returns no error returns a codec with a cipher.
C7_InvalidKeyLength ==
    Constructed /\ ctor.name # "New" =>
        /\ ctor.name = "NewAESGCM" /\ Len(ctor.key) \notin {16, 24, 32} =>
              ctorErr # NoErr /\ e.cipher = NoCipher
        /\ ctor.name # "NewAESGCM" /\ Len(ctor.key) # 32 =>
              ctorErr # NoErr /\ e.cipher = NoCipher
        /\ ctorErr = NoErr => e.cipher.present /\ e.cipher.key = ctor.key

C7_Witness ==
    /\ ctor.name = "NewChaCha20Poly1305"
    /\ Len(ctor.key) = 24
    /\ ctorErr # NoErr
    /\ e.cipher = NoCipher

\* C8: with several callers on one codec, under any interleaving of the steps
\* of their calls the codec is the one the constructor returned, every
\* Decode returns what Decode of its buffer returns when it runs alone (the
\* record encoded, for an envelope Encode returned), and every Encode returns
\* what Encode of its arguments returns alone: an error of its own, or an
\* envelope that decodes to its own arguments.
C8_ConcurrentUse ==
    Constructed =>
        /\ e = Construct(ctor.name, ctor.key).e
        /\ \A c \in Callers :
            /\ Done(c, "Decode") =>
                  /\ [T |-> call[c].retT, V |-> call[c].retV, err |-> call[c].err]
                        = Decode(e, call[c].in.env)
                  /\ /\ e.cipher.present
                     /\ call[c].in.kind = "sealed"
                     /\ call[c].in.op = "Encode"
                     => /\ call[c].err = NoErr
                        /\ call[c].retT = call[c].in.T
                        /\ call[c].retV = call[c].in.V
            /\ Done(c, "Encode") =>
                  /\ \E order \in Orders(call[c].V), seed \in Seeds, iseed \in Seeds :
                        [ret |-> call[c].ret, err |-> call[c].err]
                           = Encode(e, call[c].T, call[c].V, order, randReader, seed,
                                    RandomBytes(iseed, GCMStandardNonceSize))
                  /\ call[c].err = NoErr =>
                        Decode(e, call[c].ret.b)
                           = [T |-> call[c].T, V |-> call[c].V, err |-> NoErr]

C8_Witness ==
    /\ call[1].pc = "serialized"
    /\ Done(2, "Decode")
    /\ call[2].in.kind = "sealed"
    /\ call[2].err = NoErr
    /\ call[2].retT # call[1].T
    /\ buffer[LocalBuffer(1)] # <<>>

\* C9: the envelope of a successful encrypt or Encode is the nonce drawn in
\* that call, of the cipher handle's nonce size N, followed by what Seal
\* returns for that nonce, the plaintext and no additional data; it is at
\* least N bytes long; decrypt gives Open the first N bytes of its buffer as
\* the nonce and the rest as the sealed data.
C9_EnvelopeLayout ==
    e.cipher.present =>
        \A c \in Callers :
            LET N == NonceSize(e.cipher)
            IN  /\ Sealing(c) /\ call[c].err = NoErr =>
                      /\ Len(call[c].nonce) = N
                      /\ call[c].ret.b
                            = call[c].nonce \o Seal(e.cipher, <<>>, call[c].nonce,
                                                    call[c].data, call[c].inner)
                      /\ Len(call[c].ret.b) >= N
                /\ Done(c, "Decode") /\ call[c].opened =>
                      /\ Len(call[c].in.env) >= N
                      /\ call[c].nonce = Take(call[c].in.env, N)
                      /\ Is(call[c].err, ErrOpen)
                            <=> ~Open(e.cipher, Take(call[c].in.env, N),
                                      Drop(call[c].in.env, N)).ok
                /\ Done(c, "Decode") /\ call[c].in.kind = "sealed" =>
                      call[c].nonce = call[c].in.nonce

C9_Witness ==
    /\ e.cipher.family = XChaCha
    /\ Done(1, "Encode")
    /\ call[1].err = NoErr
    /\ call[1].V = MapAB
    /\ Take(call[1].ret.b, XChaChaNonceSize) = RandomBytes(MaxSeed, XChaChaNonceSize)
    /\ Len(call[1].ret.b) > XChaChaNonceSize + TagSize

\* an Encode that succeeded and, in the store, the envelope of an earlier
\* Encode on the same codec with the same instant and mapping
SecondEncode(c) ==
    /\ Done(c, "Encode")
    /\ call[c].err = NoErr
    /\ store.kind = "sealed"
    /\ store.op = "Encode"
    /\ store.T = call[c].T
    /\ store.V = call[c].V

\* C10 as claimed: two successful Encode calls on one codec with the same
\* instant and mapping never return identical envelopes.
C10_NeverIdentical ==
    \A c \in Callers : SecondEncode(c) => call[c].ret.b # store.env

\* C10, amended: two successful Encode calls on one codec with the same
\* instant and mapping return different envelopes whenever the random source
\* yields different nonces for them, and identical envelopes only for equal
\* nonces; on a ChaCha20-Poly1305 or XChaCha20-Poly1305 codec each seal reads
\* rand.Reader once, in that call, and its nonce is the bytes read, whatever
\* the plaintext; on an AES-GCM codec encrypt draws no nonce and the envelope
\* starts with the nonce the AEAD drew inside Seal.
C10_NonceUniqueness ==
    \A c \in Callers :
        /\ SecondEncode(c) =>
              /\ call[c].nonce # store.nonce \/ call[c].inner # store.inner =>
                    call[c].ret.b # store.env
              /\ call[c].ret.b = store.env =>
                    call[c].nonce = store.nonce /\ call[c].data = store.pt
        /\ Sealing(c) /\ call[c].err = NoErr =>
              IF e.cipher.family = AESGCM
              THEN /\ call[c].reads = 0
                   /\ call[c].nonce = <<>>
                   /\ Take(call[c].ret.b, GCMStandardNonceSize) = call[c].inner
              ELSE /\ call[c].reads = 1
                   /\ \E seed \in Seeds :
                         call[c].nonce = RandomBytes(seed, NonceSize(e.cipher))
                   /\ Take(call[c].ret.b, NonceSize(e.cipher)) = call[c].nonce

C10_Witness ==
    /\ e.cipher.family = ChaCha
    /\ SecondEncode(1)
    /\ call[1].V = MapABN
    /\ call[1].nonce # store.nonce
    /\ call[1].data = store.pt
    /\ call[1].ret.b # store.env

Failed(c, op) == Done(c, op) /\ call[c].err # NoErr

\* C11 as claimed: every error Encode or Decode returns is a cause wrapped
\* with the context of its stage: an error of Encode, of the serializer or
\* of the seal (absent cipher, failing random source), has the context of
\* Encode; an error of Decode has the context of decrypt when decrypt failed
\* and the context of the decoder when the gob decoder failed.
C11_EveryErrorWrapped ==
    \A c \in Callers :
        /\ Failed(c, "Encode") =>
              /\ Len(call[c].err) >= 2
              /\ Head(call[c].err) = MsgEncode
        /\ Failed(c, "Decode") =>
              /\ Len(call[c].err) >= 2
              /\ Head(call[c].err) = IF decrypt(e, call[c].in.env).err # NoErr
                                     THEN MsgDecrypt ELSE MsgDecode

\* C11, amended: every error of Encode or Decode matches its cause.  Encode
\* wraps only the serializer's error; what encrypt returns it returns
\* unchanged: ErrNoCipher with no context at all, the error of the random
\* source with the context encrypt gave it.  Decode wraps an error of
\* decrypt (ErrNoCipher, ErrCiphertextTooShort, the error of Open) with the
\* context of decrypt and an error of the gob decoder with the context of
\* the decoder, and the two contexts differ.
C11_StageContext ==
    \A c \in Callers :
        /\ Failed(c, "Encode") =>
              IF ~Supported(call[c].V)
              THEN call[c].err = <<MsgEncode, ErrGobUnregistered>>
              ELSE IF e.cipher = NoCipher
              THEN call[c].err = <<ErrNoCipher>>
              ELSE /\ call[c].err = <<MsgRandom, ErrRead>>
                   /\ randReader = "fail"
        /\ Failed(c, "Decode") =>
              IF decrypt(e, call[c].in.env).err # NoErr
              THEN /\ call[c].err = Wrap(MsgDecrypt, decrypt(e, call[c].in.env).err)
                   /\ Len(call[c].err) = 2
                   /\ call[c].err[2] \in {ErrNoCipher, ErrCiphertextTooShort, ErrOpen}
                   /\ ~Is(call[c].err, MsgDecode)
              ELSE /\ call[c].err = <<MsgDecode, ErrGobDecode>>
                   /\ ~Is(call[c].err, MsgDecrypt)

C11_Witness ==
    /\ e.cipher.family = XChaCha
    /\ randReader = "fail"
    /\ Done(1, "Encode")
    /\ call[1].V = MapABN
    /\ call[1].err = <<MsgRandom, ErrRead>>

\* C12: Decode of what Encode of another codec returned, a codec of another
\* key or of another cipher family, never succeeds: Open is called and
\* fails, Decode returns the zero instant, the nil mapping and the error of
\* Open in the context of decrypt, and that is the very error Decode returns
\* for an envelope of its own codec that was tampered with and failed to
\* authenticate.
C12_MismatchedCodec ==
    \A c \in Callers :
        /\ (/\ Done(c, "Decode")
            /\ call[c].in.kind \in {"otherkey", "otherfamily"}
            /\ e.cipher # NoCipher) =>
              /\ call[c].err = <<MsgDecrypt, ErrOpen>>
              /\ call[c].opened
              /\ call[c].retT = TimeZero
              /\ call[c].retV = NilMap
        /\ (/\ Failed(c, "Decode")
            /\ call[c].in.kind \in {"flipped", "truncated"}
            /\ call[c].opened) =>
              call[c].err = <<MsgDecrypt, ErrOpen>>

C12_Witness ==
    /\ e.cipher.family = AESGCM
    /\ Done(1, "Decode")
    /\ call[1].in.kind = "otherkey"
    /\ Len(call[1].in.env) > TagSize + GCMStandardNonceSize
    /\ Is(call[1].err, ErrOpen)

\* C13: Decode of an envelope that the codec's own cipher sealed, and so
\* opens and authenticates, over a plaintext that is no gob record (encrypt
\* called on the bytes of a string) fails in the gob decoder: Open was called
\* and succeeded, the error is the decoder's in the context of the decoder,
\* not an error of decrypt, and Decode returns the zero instant and the nil
\* mapping.
C13_DeserializationFailure ==
    \A c \in Callers :
        (/\ Done(c, "Decode")
         /\ call[c].in.kind = "sealed"
         /\ call[c].in.op = "encrypt"
         /\ ~GobDecode(call[c].in.pt).ok) =>
            /\ decrypt(e, call[c].in.env).err = NoErr
            /\ decrypt(e, call[c].in.env).ret.b = call[c].in.pt
            /\ call[c].opened
            /\ call[c].err = <<MsgDecode, ErrGobDecode>>
            /\ ~Is(call[c].err, MsgDecrypt)
            /\ ~Is(call[c].err, ErrOpen)
            /\ ~Is(call[c].err, ErrCiphertextTooShort)
            /\ call[c].retT = TimeZero
            /\ call[c].retV = NilMap

C13_Witness ==
    /\ e.cipher.family = ChaCha
    /\ Done(1, "Decode")
    /\ call[1].in.kind = "sealed"
    /\ call[1].in.op = "encrypt"
    /\ call[1].in.pt = <<102, 111, 111>>
    /\ Is(call[1].err, ErrGobDecode)
    /\ call[1].retV = NilMap

\* what a finished call holds: an error with nil bytes (Encode) or with the
\* zero instant and the nil mapping (Decode), or no error with the whole
\* result; no buffer of the call is left; Decode read no randomness and
\* sealed nothing; Encode read rand.Reader at most once, and only once the
\* record was serialized and a cipher was there to seal it
AtomicResults ==
    \A c \in Callers :
        /\ Failed(c, "Encode") =>
              /\ call[c].ret = NilBytes
              /\ ~call[c].sealed
        /\ (Done(c, "Encode") /\ call[c].err = NoErr) =>
              /\ ~call[c].ret.nil
              /\ call[c].sealed
              /\ decrypt(e, call[c].ret.b).ret.b \in
                    {GobEncode(call[c].T, call[c].V, o).b : o \in Orders(call[c].V)}
        /\ Failed(c, "Decode") =>
              /\ call[c].retT = TimeZero
              /\ call[c].retV = NilMap
        /\ (Done(c, "Decode") /\ call[c].err = NoErr) =>
              /\ GobDecode(decrypt(e, call[c].in.env).ret.b).ok
              /\ call[c].retT = GobDecode(decrypt(e, call[c].in.env).ret.b).T
              /\ call[c].retV = GobDecode(decrypt(e, call[c].in.env).ret.b).V
        /\ call[c].op = "Decode" =>
              /\ call[c].reads = 0
              /\ ~call[c].sealed
              /\ call[c].ret = NilBytes
        /\ call[c].op = "Encode" =>
              /\ call[c].reads \in {0, 1}
              /\ call[c].reads = 1 =>
                    /\ call[c].pc = "done"
                    /\ Supported(call[c].V)
                    /\ e.cipher # NoCipher
              /\ ~call[c].opened
        /\ call[c].pc = "done" => buffer[LocalBuffer(c)] = <<>>

\* a step of a call changes nothing but the call and its buffers, and the
\* return of a failed call leaves the store as it was
NoSideEffect ==
    \A c \in Callers :
        /\ (call'[c] # call[c] /\ call'[c].pc # "idle") =>
              UNCHANGED <<ctor, e, ctorErr, randReader, store>>
        /\ (call[c].pc = "done" /\ call[c].err # NoErr /\ call'[c].pc = "idle") =>
              UNCHANGED <<ctor, e, ctorErr, randReader, store, buffer>>

\* C14: every call of Encode or Decode ends in full success or in failure
\* with no partial result: an error of Encode comes with nil bytes, an error
\* of Decode with the zero instant and the nil mapping; a failed call
\* changes neither the codec, the random source nor the store; Decode never
\* reads randomness, only the seal of Encode does.
C14_AtomicOutcome == []AtomicResults /\ [][NoSideEffect]_vars

C14_Witness ==
    /\ e.cipher.family = ChaCha
    /\ randReader = "fail"
    /\ store.kind = "sealed"
    /\ Done(1, "Encode")
    /\ call[1].reads = 1
    /\ call[1].err # NoErr
    /\ call[1].ret = NilBytes

====
